---------------------------- MODULE Spec2Model ----------------------------
(***************************************************************************)
(* A model of src/blockchain.py: a network of nodes, each one process      *)
(* holding one Blockchain object (chain, current_transactions, nodes) and  *)
(* serving the routes /transactions/new, /mine, /chain, /nodes/register    *)
(* and /nodes/resolve.                                                     *)
(*                                                                         *)
(* Values.  A block is a record with the five keys of new_block.  A        *)
(* digest is a sequence: Blockchain.hash is the canonical (sorted-key)     *)
(* serialization of the block, SHA-256 being taken as injective on it.     *)
(* The genesis previous_hash, the integer 1 of line 22, is the one-element *)
(* sequence <<1>>, and Python's None is the empty sequence, so that every  *)
(* previous_hash is a sequence and the three kinds never compare equal.    *)
(*                                                                         *)
(* Specifications.  Spec: the network, every handler one step.             *)
(* SpecLedger: one node under submit and mine.  SpecWire: one resolve      *)
(* over answers altered on the wire.  SpecValid, SpecProof: valid_chain    *)
(* and proof_of_work called on chosen arguments.  SpecThreads: one node    *)
(* whose handlers run on threads, a step per read or write of the object.  *)
(* SpecMesh: the network with resolve weakly fair.                         *)
(***************************************************************************)
EXTENDS Integers, Sequences, FiniteSets, TLC

\* ------------------------------------------------------------- bounds
\* Number of node processes in the network.
NumNodes == 2
\* /mine is not taken once a chain holds this many blocks.
MaxChain == 3
\* /transactions/new is not taken once this many transactions are pending:
\* on a node of the network, and on the single node of SpecLedger.
MaxPending == 1
MaxLedgerPending == 2
\* time() returns a value of 0..MaxTime.
MaxTime == 0
\* The request threads the threaded server runs at once.
NumThreads == 2
\* A thread of the threaded server starts /mine only on a chain of fewer
\* blocks.
MaxServerChain == 2

Nodes == 1..NumNodes
Timestamps == 0..MaxTime
Threads == 1..NumThreads

\* ---------------------------------------------------------- constants
\* Blockchain.difficulty
difficulty == 4

\* None, and the falsy test of `previous_hash or ...` and `if new_chain:`.
None == <<>>
Falsy(v) == v = <<>>

\* previous_hash=1 and proof=100 of the genesis block.
GenesisPreviousHash == <<1>>
GenesisProof == 100

\* str(uuid4()).replace('-', ''): one identifier per node process.
node_identifier(n) == "node" \o ToString(n)

\* ------------------------------------------------------ pure functions
\* f'{n}' for a non-negative integer: its decimal digits.
RECURSIVE Str(_)
Str(n) == IF n < 10 THEN <<n>> ELSE Str(n \div 10) \o <<n % 10>>

\* hashlib.sha256(bytes).hexdigest(), abstracted: a deterministic digest of
\* the whole byte string, as a sequence of hex digits.  Each byte moves the
\* running value, so for every prefix some last digit gives the zero digest.
RECURSIVE sha256_mix(_, _)
sha256_mix(bytes, h) ==
    IF bytes = <<>> THEN h
    ELSE sha256_mix(Tail(bytes), (h * 3 + Head(bytes) + 1) % 7)

sha256_hexdigest(bytes) ==
    LET h == sha256_mix(bytes, 0)
    IN  [i \in 1..8 |-> (h * i) % 16]

\* Blockchain.valid_proof
valid_proof(last_proof, proof) ==
    LET guess == Str(last_proof) \o Str(proof)
        guess_hash == sha256_hexdigest(guess)
        prefix == [i \in 1..difficulty |-> 0]
    IN  SubSeq(guess_hash, 1, difficulty) = prefix

\* Blockchain.proof_of_work: the while loop, from `proof`.
RECURSIVE proof_of_work_loop(_, _)
proof_of_work_loop(last_proof, proof) ==
    IF valid_proof(last_proof, proof) THEN proof
    ELSE proof_of_work_loop(last_proof, proof + 1)

proof_of_work_FromOne(last_proof) == proof_of_work_loop(last_proof, 1)

proof_of_work(last_proof) == proof_of_work_loop(last_proof, 0)

\* Blockchain.hash: json.dumps(block, sort_keys=True) lists the keys in the
\* order index, previous_hash, proof, timestamp, transactions.
hash(block) ==
    << block.index, block.previous_hash, block.proof, block.timestamp,
       block.transactions >>

\* Blockchain.last_block: chain[-1].
last_block_First(chain) == chain[1]

last_block(chain) == chain[Len(chain)]

\* ------------------------------------------------- Blockchain methods
\* A Blockchain object is a record [chain, current_transactions, nodes].
\* A method returns [self |-> the object after the call, ret |-> its result].

\* Blockchain.new_block; `now` is what time() returns.
new_block_KeepPending(self, proof, previous_hash, now) ==
    LET block == [ index |-> Len(self.chain) + 1,
                   timestamp |-> now,
                   transactions |-> self.current_transactions,
                   proof |-> proof,
                   previous_hash |->
                       IF Falsy(previous_hash)
                       THEN hash(self.chain[Len(self.chain)])
                       ELSE previous_hash ]
    IN  [ self |-> [self EXCEPT !.chain = Append(self.chain, block)],
          ret |-> block ]

new_block_IndexFromZero(self, proof, previous_hash, now) ==
    LET block == [ index |-> Len(self.chain),
                   timestamp |-> now,
                   transactions |-> self.current_transactions,
                   proof |-> proof,
                   previous_hash |->
                       IF Falsy(previous_hash)
                       THEN hash(self.chain[Len(self.chain)])
                       ELSE previous_hash ]
    IN  [ self |-> [self EXCEPT !.current_transactions = <<>>,
                                !.chain = Append(self.chain, block)],
          ret |-> block ]

new_block_ResetFirst(self, proof, previous_hash, now) ==
    LET block == [ index |-> Len(self.chain) + 1,
                   timestamp |-> now,
                   transactions |-> <<>>,
                   proof |-> proof,
                   previous_hash |->
                       IF Falsy(previous_hash)
                       THEN hash(self.chain[Len(self.chain)])
                       ELSE previous_hash ]
    IN  [ self |-> [self EXCEPT !.current_transactions = <<>>,
                                !.chain = Append(self.chain, block)],
          ret |-> block ]

new_block(self, proof, previous_hash, now) ==
    LET block == [ index |-> Len(self.chain) + 1,
                   timestamp |-> now,
                   transactions |-> self.current_transactions,
                   proof |-> proof,
                   previous_hash |->
                       IF Falsy(previous_hash)
                       THEN hash(last_block(self.chain))
                       ELSE previous_hash ]
    IN  [ self |-> [self EXCEPT !.current_transactions = <<>>,
                                !.chain = Append(self.chain, block)],
          ret |-> block ]

\* Blockchain.__init__
Blockchain_SwappedArguments(now) ==
    new_block([chain |-> <<>>, current_transactions |-> <<>>, nodes |-> {}],
              1, <<GenesisProof>>, now).self

Blockchain(now) ==
    new_block([chain |-> <<>>, current_transactions |-> <<>>, nodes |-> {}],
              GenesisProof, GenesisPreviousHash, now).self

\* Blockchain.new_transaction
new_transaction_Prepend(self, sender, recipient, amount) ==
    LET new_trx == [sender |-> sender, recipient |-> recipient, amount |-> amount]
    IN  [ self |-> [self EXCEPT !.current_transactions = <<new_trx>> \o @],
          ret |-> self.chain[Len(self.chain)].index + 1 ]

new_transaction_Aliased(self, sender, recipient, amount) ==
    LET new_trx == [sender |-> sender, recipient |-> recipient, amount |-> amount]
        tip == Len(self.chain)
    IN  [ self |-> [self EXCEPT
                      !.current_transactions = Append(@, new_trx),
                      !.chain[tip].transactions = Append(@, new_trx)],
          ret |-> self.chain[tip].index + 1 ]

new_transaction(self, sender, recipient, amount) ==
    LET new_trx == [sender |-> sender, recipient |-> recipient, amount |-> amount]
    IN  [ self |-> [self EXCEPT !.current_transactions = Append(@, new_trx)],
          ret |-> last_block(self.chain).index + 1 ]

\* Blockchain.register_node: an address is [scheme, netloc], and
\* urlparse(address).netloc is kept.
register_node(self, address) ==
    [self EXCEPT !.nodes = @ \cup {address.netloc}]

\* `for node in nodes: blockchain.register_node(node)` of POST /nodes/register.
RECURSIVE register_nodes(_, _)
register_nodes(self, addresses) ==
    IF addresses = {} THEN self
    ELSE LET a == CHOOSE x \in addresses : TRUE
         IN  register_nodes(register_node(self, a), addresses \ {a})

\* Blockchain.valid_chain: the for loop from position `index` (1-based here,
\* so the loop starts at 2) with the running last_block.
RECURSIVE valid_chain_loop_NoProof(_, _, _)
valid_chain_loop_NoProof(chain, index, lastBlock) ==
    IF index > Len(chain) THEN TRUE
    ELSE LET block == chain[index]
         IN  IF block.previous_hash # hash(lastBlock) THEN FALSE
             ELSE valid_chain_loop_NoProof(chain, index + 1, block)

RECURSIVE valid_chain_loop_NoHash(_, _, _)
valid_chain_loop_NoHash(chain, index, lastBlock) ==
    IF index > Len(chain) THEN TRUE
    ELSE LET block == chain[index]
         IN  IF ~valid_proof(lastBlock.proof, block.proof) THEN FALSE
             ELSE valid_chain_loop_NoHash(chain, index + 1, block)

RECURSIVE valid_chain_loop(_, _, _)
valid_chain_loop(chain, index, lastBlock) ==
    IF index > Len(chain) THEN TRUE
    ELSE LET block == chain[index]
         IN  IF block.previous_hash # hash(lastBlock) THEN FALSE
             ELSE IF ~valid_proof(lastBlock.proof, block.proof) THEN FALSE
             ELSE valid_chain_loop(chain, index + 1, block)

\* [raised |-> chain[0] raised IndexError, ret |-> the boolean returned].
valid_chain(chain) ==
    IF chain = <<>> THEN [raised |-> TRUE, ret |-> FALSE]
    ELSE [raised |-> FALSE, ret |-> valid_chain_loop(chain, 2, chain[1])]

\* Blockchain.resolve_conflicts, the for loop: responses[i] is what
\* requests.get gave for the i-th neighbour of the scan,
\* [raised, status_code, length, chain].  An exception ends the scan.
RECURSIVE resolve_scan(_, _, _, _)
resolve_scan(responses, i, max_length, new_chain) ==
    IF i > Len(responses)
    THEN [raised |-> FALSE, max_length |-> max_length, new_chain |-> new_chain]
    ELSE LET response == responses[i]
         IN  IF response.raised
             THEN [raised |-> TRUE, max_length |-> max_length, new_chain |-> new_chain]
             ELSE IF response.status_code # 200
             THEN resolve_scan(responses, i + 1, max_length, new_chain)
             ELSE IF ~(response.length > max_length)
             THEN resolve_scan(responses, i + 1, max_length, new_chain)
             ELSE LET v == valid_chain(response.chain)
                  IN  IF v.raised
                      THEN [raised |-> TRUE, max_length |-> max_length,
                            new_chain |-> new_chain]
                      ELSE IF v.ret
                      THEN resolve_scan(responses, i + 1, response.length, response.chain)
                      ELSE resolve_scan(responses, i + 1, max_length, new_chain)

\* Blockchain.resolve_conflicts: [self, ret, raised]; an exception leaves the
\* object as it was.
resolve_conflicts_ClearsPending(self, responses) ==
    LET scan == resolve_scan(responses, 1, Len(self.chain), None)
    IN  IF scan.raised THEN [self |-> self, ret |-> FALSE, raised |-> TRUE]
        ELSE IF ~Falsy(scan.new_chain)
        THEN [self |-> [self EXCEPT !.chain = scan.new_chain,
                                    !.current_transactions = <<>>],
              ret |-> TRUE, raised |-> FALSE]
        ELSE [self |-> self, ret |-> FALSE, raised |-> FALSE]

resolve_conflicts_NeverAssigns(self, responses) ==
    LET scan == resolve_scan(responses, 1, Len(self.chain), None)
    IN  IF scan.raised THEN [self |-> self, ret |-> FALSE, raised |-> TRUE]
        ELSE IF ~Falsy(scan.new_chain)
        THEN [self |-> self, ret |-> TRUE, raised |-> FALSE]
        ELSE [self |-> self, ret |-> FALSE, raised |-> FALSE]

resolve_conflicts(self, responses) ==
    LET scan == resolve_scan(responses, 1, Len(self.chain), None)
    IN  IF scan.raised THEN [self |-> self, ret |-> FALSE, raised |-> TRUE]
        ELSE IF ~Falsy(scan.new_chain)
        THEN [self |-> [self EXCEPT !.chain = scan.new_chain], ret |-> TRUE,
              raised |-> FALSE]
        ELSE [self |-> self, ret |-> FALSE, raised |-> FALSE]

\* The body of GET /chain.
full_chain(self) == [chain |-> self.chain, length |-> Len(self.chain)]

\* The body of GET /mine up to new_block: [self, ret |-> the forged block].
mine(self, n, now) ==
    LET lastBlock == last_block(self.chain)
        last_proof == lastBlock.proof
        proof == proof_of_work(last_proof)
        rewarded == new_transaction(self, "0", node_identifier(n), 1).self
        previous_hash == hash(lastBlock)
    IN  new_block(rewarded, proof, previous_hash, now)

\* --------------------------------------------------------------- state
VARIABLES
    blockchain,   \* blockchain[n]: the Blockchain object of node n's process
    receipts,     \* receipts[n]: the transfers node n accepted since it last
                  \* forged a block, each with the index it was answered:
                  \* [trx, index] (history)
    last,         \* the last request served: its route, node, inputs, the
                  \* object before it, and its outcome (history)
    call,         \* the last direct call of a method on a chosen argument:
                  \* [fn, arg, ret, from] (history)
    threads       \* threads[t]: where request thread t of the threaded
                  \* server stands in its handler, and the handler's locals

vars == <<blockchain, receipts, last, call, threads>>

\* The JSON bodies POSTed to /transactions/new: two transfers, and one body
\* with a key missing.
Transfers ==
    { [sender |-> "A", recipient |-> "B", amount |-> 10],
      [sender |-> "B", recipient |-> "C", amount |-> 5] }
TransactionBodies == Transfers \cup { [sender |-> "A", recipient |-> "B"] }

\* The JSON bodies POSTed to /nodes/register: a list of addresses under
\* 'nodes', or a body without that key.
Address(p) == [scheme |-> "http", netloc |-> p]
RegisterBodies ==
    { [nodes |-> { Address(p) : p \in Nodes }], [other |-> 0] }

\* What requests.get(f'http://{node}/chain') may give: the peer's answer, an
\* answer with another status code, or an exception of the transport.
FetchOutcomes == {"ok", "status", "exception"}

NoResponse == [raised |-> TRUE, status_code |-> 0, length |-> 0, chain |-> <<>>]

Fetch(p, outcome) ==
    IF outcome = "ok"
    THEN [ raised |-> FALSE, status_code |-> 200,
           length |-> full_chain(blockchain[p]).length,
           chain |-> full_chain(blockchain[p]).chain ]
    ELSE IF outcome = "status"
    THEN [raised |-> FALSE, status_code |-> 500, length |-> 0, chain |-> <<>>]
    ELSE NoResponse

\* The orders in which `for node in neighbours` may visit a set.
Orders(S) ==
    { o \in [1..Cardinality(S) -> S] : \A i, j \in DOMAIN o : o[i] = o[j] => i = j }

Served(op, n, code, ret, pre, responses, rcpts) ==
    [ op |-> op, node |-> n, code |-> code, ret |-> ret, pre |-> pre,
      responses |-> responses, receipts |-> rcpts ]

\* A thread between requests.
Idle ==
    [ pc |-> "idle", last_block |-> <<>>, proof |-> 0, neighbours |-> <<>>,
      silent |-> {}, max_length |-> 0, new_chain |-> None ]

Init ==
    /\ blockchain \in [Nodes -> { Blockchain(now) : now \in Timestamps }]
    /\ receipts = [n \in Nodes |-> <<>>]
    /\ last = Served("init", 0, 0, 0, <<>>, <<>>, <<>>)
    /\ call = [fn |-> "none", arg |-> <<>>, ret |-> <<>>, from |-> <<>>]
    /\ threads = [t \in Threads |-> Idle]

\* POST /transactions/new
NewTransaction(n) ==
    \E values \in TransactionBodies :
        /\ UNCHANGED <<call, threads>>
        /\ IF ~({"sender", "recipient", "amount"} \subseteq DOMAIN values)
           THEN /\ last' = Served("transactions_new", n, 400, 0, blockchain[n],
                                  <<>>, <<>>)
                /\ UNCHANGED <<blockchain, receipts>>
           ELSE LET r == new_transaction(blockchain[n], values.sender,
                                         values.recipient, values.amount)
                IN  /\ blockchain' = [blockchain EXCEPT ![n] = r.self]
                    /\ receipts' = [receipts EXCEPT ![n] =
                                       Append(@, [trx |-> values, index |-> r.ret])]
                    /\ last' = Served("transactions_new", n, 201, r.ret,
                                      blockchain[n], <<>>, <<>>)

\* GET /mine
Mine(n) ==
    \E now \in Timestamps :
        /\ Len(blockchain[n].chain) < MaxChain
        /\ UNCHANGED <<call, threads>>
        /\ LET r == mine(blockchain[n], n, now)
           IN  /\ blockchain' = [blockchain EXCEPT ![n] = r.self]
               /\ receipts' = [receipts EXCEPT ![n] = <<>>]
               /\ last' = Served("mine", n, 200, r.ret, blockchain[n], <<>>,
                                 receipts[n])

\* POST /nodes/register
RegisterNodes(n) ==
    \E values \in RegisterBodies :
        /\ UNCHANGED <<call, threads>>
        /\ IF "nodes" \notin DOMAIN values
           THEN /\ last' = Served("nodes_register", n, 400, 0, blockchain[n],
                                  <<>>, <<>>)
                /\ UNCHANGED <<blockchain, receipts>>
           ELSE /\ blockchain' =
                    [blockchain EXCEPT ![n] = register_nodes(@, values.nodes)]
                /\ last' = Served("nodes_register", n, 201, 0, blockchain[n],
                                  <<>>, <<>>)
                /\ UNCHANGED receipts

\* GET /nodes/resolve, given what the fetches gave in scan order.
ConsensusWith(n, responses) ==
    LET r == resolve_conflicts(blockchain[n], responses)
    IN  /\ blockchain' = [blockchain EXCEPT ![n] = r.self]
        /\ last' = Served("nodes_resolve", n, IF r.raised THEN 500 ELSE 200,
                          r.ret, blockchain[n], responses, <<>>)
        /\ UNCHANGED <<receipts, call, threads>>

\* GET /nodes/resolve in a network where every peer runs this code.
Consensus(n) ==
    \E order \in Orders(blockchain[n].nodes) :
    \E outcome \in [blockchain[n].nodes -> FetchOutcomes] :
        ConsensusWith(n, [i \in DOMAIN order |-> Fetch(order[i], outcome[order[i]])])

PendingBelow(n, bound) == Len(blockchain[n].current_transactions) < bound

Next ==
    \E n \in Nodes :
        \/ PendingBelow(n, MaxPending) /\ NewTransaction(n)
        \/ Mine(n)
        \/ RegisterNodes(n)
        \/ Consensus(n)

Spec == Init /\ [][Next]_vars

\* ------------------------------------------------ one node's ledger
\* Node 1 alone, serving /transactions/new and /mine.
NextLedger ==
    \/ PendingBelow(1, MaxLedgerPending) /\ NewTransaction(1)
    \/ Mine(1)

SpecLedger == Init /\ [][NextLedger]_vars

\* ------------------------------------- peers that answer anything
\* What a peer that does not run this code (or the network between) may
\* send for `chain`: a prefix of a node's chain, or that chain with one key
\* of one block set to another value; and for `length` any number.
Theft == [sender |-> "A", recipient |-> "M", amount |-> 99]
OtherDigest == hash([index |-> 0, timestamp |-> 0, transactions |-> <<>>,
                     proof |-> 0, previous_hash |-> None])
TamperKeys == {"proof", "previous_hash", "transactions"}

KeyValues(key) ==
    IF key = "proof" THEN {1, 8}
    ELSE IF key = "previous_hash" THEN {GenesisPreviousHash, OtherDigest}
    ELSE { <<>>, <<Theft>> }

Tampered(chain, position, key, value) ==
    [chain EXCEPT ![position] = [@ EXCEPT ![key] = value]]

TamperedChains(chain) ==
    UNION { { Tampered(chain, position, key, value) :
                position \in DOMAIN chain, value \in KeyValues(key) } :
            key \in TamperKeys }

Prefixes(chain) == { SubSeq(chain, 1, k) : k \in 0..Len(chain) }

WireChains(chain) == Prefixes(chain) \cup TamperedChains(chain)

WireLengths == 0..(MaxChain + 1)

\* GET /nodes/resolve where one neighbour's answer is any of the above and
\* the others answer as this code does.
ConsensusWire(n) ==
    \E order \in Orders(blockchain[n].nodes) :
    \E bad \in blockchain[n].nodes :
    \E sent \in WireChains(blockchain[bad].chain) :
    \E length \in WireLengths :
        ConsensusWith(n, [i \in DOMAIN order |->
            IF order[i] = bad
            THEN [raised |-> FALSE, status_code |-> 200, length |-> length,
                  chain |-> sent]
            ELSE Fetch(order[i], "ok")])

\* Nodes mine and register; one resolve is served such answers, in any state
\* so reached, and the run ends there.
WireIdle == last.op # "nodes_resolve"

NextWire ==
    \E n \in Nodes :
        \/ WireIdle /\ Mine(n)
        \/ WireIdle /\ RegisterNodes(n)
        \/ WireIdle /\ ConsensusWire(n)

SpecWire == Init /\ [][NextWire]_vars

\* ------------------------------------------- valid_chain, called alone
\* valid_chain on a prefix of node 1's chain (the whole chain and the empty
\* list included).
ValidChainOfPrefix ==
    \E sent \in Prefixes(blockchain[1].chain) :
        /\ call' = [ fn |-> "valid_chain", arg |-> sent, ret |-> valid_chain(sent),
                     from |-> [chain |-> blockchain[1].chain, position |-> 0,
                               key |-> "none"] ]
        /\ UNCHANGED <<blockchain, receipts, last, threads>>

\* valid_chain on node 1's chain with one key of one block set to a
\* different value.
ValidChainOfTampered ==
    \E position \in DOMAIN blockchain[1].chain :
    \E key \in TamperKeys :
    \E value \in KeyValues(key) :
        /\ value # blockchain[1].chain[position][key]
        /\ LET sent == Tampered(blockchain[1].chain, position, key, value)
           IN  call' = [ fn |-> "valid_chain", arg |-> sent,
                         ret |-> valid_chain(sent),
                         from |-> [chain |-> blockchain[1].chain,
                                   position |-> position, key |-> key] ]
        /\ UNCHANGED <<blockchain, receipts, last, threads>>

NextValid ==
    \/ PendingBelow(1, MaxPending) /\ NewTransaction(1)
    \/ Mine(1)
    \/ ValidChainOfPrefix
    \/ ValidChainOfTampered

SpecValid == Init /\ [][NextValid]_vars

\* ------------------------------------------------------------ properties
\* What the claims speak of, stated without the methods that decide it.
HashLinked(chain) ==
    \A i \in 2..Len(chain) : chain[i].previous_hash = hash(chain[i - 1])

ProofsVerified(chain) ==
    \A i \in 2..Len(chain) : valid_proof(chain[i - 1].proof, chain[i].proof)

Reward(n) == [sender |-> "0", recipient |-> node_identifier(n), amount |-> 1]

ReturnedTrue == [raised |-> FALSE, ret |-> TRUE]
ReturnedFalse == [raised |-> FALSE, ret |-> FALSE]

\* C1: in every state the network reaches by submitting, mining, registering
\* and resolving, every block of every node's chain but the first carries the
\* hash of the block before it.
C1_HashLinkage ==
    \A n \in Nodes : HashLinked(blockchain[n].chain)

\* A node has just replaced its chain by a peer's chain of three blocks.
C1_Witness ==
    /\ last.op = "nodes_resolve"
    /\ last.ret = TRUE
    /\ Len(blockchain[last.node].chain) >= 3
    /\ Len(last.pre.chain) = 2

\* C2: a resolve that replaces the chain leaves a chain of strictly more
\* blocks than before, whatever chain and length each answer carries.
C2_StrictlyLonger ==
    (last.op = "nodes_resolve" /\ last.ret = TRUE)
        => Len(blockchain[last.node].chain) > Len(last.pre.chain)

\* C3: after a resolve that returns, the chain is the old one (and the result
\* False), or the chain of an answer with status 200 that is hash-linked and
\* proof-verified throughout (and the result True); and when some such answer
\* reports a length above the old chain's, the chain is replaced.
C3_NeverAdoptsInvalid ==
    (last.op = "nodes_resolve" /\ last.code = 200) =>
        LET old == last.pre.chain
            new == blockchain[last.node].chain
            Valid == { i \in DOMAIN last.responses :
                         /\ ~last.responses[i].raised
                         /\ last.responses[i].status_code = 200
                         /\ last.responses[i].chain # <<>>
                         /\ HashLinked(last.responses[i].chain)
                         /\ ProofsVerified(last.responses[i].chain) }
        IN  /\ last.ret = FALSE => new = old
            /\ last.ret = TRUE => \E i \in Valid : new = last.responses[i].chain
            /\ (\E i \in Valid : last.responses[i].length > Len(old))
                   => last.ret = TRUE

\* A resolve met an answer reporting the greatest length whose chain is not
\* valid, and replaced the chain by another answer's valid chain.
C3_Witness ==
    /\ last.op = "nodes_resolve"
    /\ last.code = 200
    /\ last.ret = TRUE
    /\ \E i, j \in DOMAIN last.responses :
          /\ i # j
          /\ last.responses[i].length > last.responses[j].length
          /\ last.responses[i].chain # <<>>
          /\ ~(HashLinked(last.responses[i].chain)
                 /\ ProofsVerified(last.responses[i].chain))
          /\ blockchain[last.node].chain = last.responses[j].chain
          /\ blockchain[last.node].chain # last.pre.chain

\* C4: a resolve during which some fetch fails (an exception of the
\* transport, or a status other than 200) still returns, and leaves the
\* object as a resolve over the other answers alone would.
Answered(responses) ==
    SelectSeq(responses, LAMBDA r : ~r.raised /\ r.status_code = 200)

C4_FailureSkipped ==
    (/\ last.op = "nodes_resolve"
     /\ Answered(last.responses) # last.responses)
        => /\ last.code = 200
           /\ blockchain[last.node] =
                  resolve_conflicts(last.pre, Answered(last.responses)).self
           /\ last.ret = resolve_conflicts(last.pre, Answered(last.responses)).ret

\* C5: every transfer forged into a block was answered, when submitted, with
\* the index of that block.
C5_ReceiptIsBlockIndex ==
    last.op = "mine" =>
        \A i \in DOMAIN last.receipts : last.receipts[i].index = last.ret.index

\* C6: the block /mine forges holds exactly the transfers accepted since the
\* previous forged block, in the order they were submitted, then the reward
\* ("0", this node's identifier, 1).
C6_MineEmbedsPendingThenReward ==
    last.op = "mine" =>
        /\ last.ret.transactions =
               [i \in DOMAIN last.receipts |-> last.receipts[i].trx]
                   \o <<Reward(last.node)>>
        /\ blockchain[last.node].chain[Len(blockchain[last.node].chain)]
               = last.ret

\* /mine forged a block from two different pending transfers, not the first
\* block the node forged.
C6_Witness ==
    /\ last.op = "mine"
    /\ Len(last.receipts) = 2
    /\ last.receipts[1].trx # last.receipts[2].trx
    /\ Len(last.pre.chain) >= 2

\* C7: after new_block the pending buffer is empty, the chain is one block
\* longer, the returned block is its last block, and the block's index is the
\* length of the chain before the call plus 1.
C7_NewBlockEffect ==
    last.op = "mine" =>
        LET self == blockchain[last.node]
        IN  /\ self.current_transactions = <<>>
            /\ Len(self.chain) = Len(last.pre.chain) + 1
            /\ SubSeq(self.chain, 1, Len(last.pre.chain)) = last.pre.chain
            /\ self.chain[Len(self.chain)] = last.ret
            /\ last.ret.index = Len(last.pre.chain) + 1

\* /mine forged a block with a transfer pending, on a chain the node had
\* adopted from a peer.
C7_Witness ==
    /\ last.op = "mine"
    /\ last.pre.current_transactions # <<>>
    /\ Len(last.pre.chain) >= 2
    /\ \E b \in 1..Len(last.pre.chain) :
          last.pre.chain[b].transactions # <<>>
          /\ last.pre.chain[b].transactions[Len(last.pre.chain[b].transactions)]
                 # Reward(last.node)

\* The call is valid_chain on a valid chain of two or more blocks with one
\* key of one block changed.
TamperCall ==
    /\ call.fn = "valid_chain"
    /\ call.from.key \in TamperKeys
    /\ Len(call.from.chain) >= 2
    /\ HashLinked(call.from.chain)
    /\ ProofsVerified(call.from.chain)
    /\ call.arg # call.from.chain

\* The changed block is the last one, and the change is one no later block
\* records: its transactions, or its proof set to a value that verifies
\* against the proof of the block before.
TipChangeUnrecorded ==
    LET tip == Len(call.arg)
    IN  /\ call.from.position = tip
        /\ \/ call.from.key = "transactions"
           \/ /\ call.from.key = "proof"
              /\ valid_proof(call.arg[tip - 1].proof, call.arg[tip].proof)

\* C8 as claimed: changing the proof, previous_hash or transactions of any one
\* block of a valid chain of two or more blocks makes valid_chain return false.
C8_AnyTamperDetected ==
    TamperCall => call.ret = ReturnedFalse

\* C8 as amended: the change makes valid_chain return false unless it is
\* one of the last block that no later block records; such a change leaves
\* valid_chain returning true.
C8_TamperDetectedUnlessTip ==
    TamperCall =>
        IF TipChangeUnrecorded THEN call.ret = ReturnedTrue
        ELSE call.ret = ReturnedFalse

\* valid_chain was called on a chain of three blocks whose first block had
\* its transactions changed, and on one whose last block had its
\* previous_hash changed.
C8_Witness ==
    /\ TamperCall
    /\ Len(call.arg) = 3
    /\ \/ call.from.position = 1 /\ call.from.key = "transactions"
       \/ call.from.position = 3 /\ call.from.key = "previous_hash"
    /\ call.ret = ReturnedFalse

\* C9: valid_chain returns, and returns true exactly when every adjacent pair
\* of the chain is hash-linked and proof-verified.
C9_ValidChainIff ==
    call.fn = "valid_chain" =>
        /\ ~call.ret.raised
        /\ call.ret.ret <=> (HashLinked(call.arg) /\ ProofsVerified(call.arg))

\* C10: valid_chain returns true for the empty chain and for every chain of
\* one block.
C10_ShortChainsValid ==
    (call.fn = "valid_chain" /\ Len(call.arg) <= 1) => call.ret = ReturnedTrue

\* C11: in every node's chain of the honest network (submit, mine, resolve
\* over the peers' own chains) the block at position i, counted from 1,
\* carries index i.
C11_IndexIsPosition ==
    \A n \in Nodes :
        \A i \in DOMAIN blockchain[n].chain : blockchain[n].chain[i].index = i

\* /mine forged the third block on a chain whose second block another node
\* had forged.
C11_Witness ==
    /\ last.op = "mine"
    /\ last.ret.index = 3
    /\ \E m \in Nodes \ {last.node} :
          LET trx == last.pre.chain[2].transactions
          IN  trx[Len(trx)] = Reward(m)

\* C12: every step leaves each node's chain as it was, or is a /mine that
\* appends exactly one block after all the blocks the chain had, or is a
\* resolve that sets the chain to the whole chain of one answer it fetched.
C12_AppendOrReplace ==
    [][\A n \in Nodes :
          LET old == blockchain[n].chain
              new == blockchain'[n].chain
          IN  \/ new = old
              \/ /\ last'.op = "mine"
                 /\ last'.node = n
                 /\ Len(new) = Len(old) + 1
                 /\ SubSeq(new, 1, Len(old)) = old
              \/ /\ last'.op = "nodes_resolve"
                 /\ last'.node = n
                 /\ \E i \in DOMAIN last'.responses :
                       /\ ~last'.responses[i].raised
                       /\ last'.responses[i].status_code = 200
                       /\ new = last'.responses[i].chain]_vars

\* A resolve replaced a chain of two blocks, the second forged by the node
\* itself with a transfer in it, by a peer's chain of three blocks with
\* another second block; and a transfer is pending at the node.
C12_Witness ==
    /\ last.op = "nodes_resolve"
    /\ last.ret = TRUE
    /\ Len(last.pre.chain) = 2
    /\ Len(last.pre.chain[2].transactions) = 2
    /\ Len(blockchain[last.node].chain) = 3
    /\ blockchain[last.node].chain[2] # last.pre.chain[2]
    /\ blockchain[last.node].current_transactions # <<>>

\* C17: right after construction the chain is exactly one block, of index 1,
\* previous_hash the sentinel, proof the initial proof and no transactions,
\* and nothing is pending.
C17_Genesis ==
    last.op = "init" =>
        \A n \in Nodes :
            LET self == blockchain[n]
            IN  /\ Len(self.chain) = 1
                /\ self.chain[1].index = 1
                /\ self.chain[1].previous_hash = GenesisPreviousHash
                /\ self.chain[1].proof = GenesisProof
                /\ self.chain[1].transactions = <<>>
                /\ self.current_transactions = <<>>

\* The objects are as the constructor left them: no request was served.
C17_Witness ==
    /\ last.op = "init"
    /\ \A n \in Nodes :
          /\ blockchain[n] = Blockchain(blockchain[n].chain[1].timestamp)
          /\ receipts[n] = <<>>

\* C20: a resolve changes at most the chain of the node it runs on: that
\* node's pending transactions and peer set, and every other node's object,
\* are after the step what they were before it.
C20_ResolveFrame ==
    [][last'.op = "nodes_resolve" =>
          /\ blockchain'[last'.node].current_transactions
                 = blockchain[last'.node].current_transactions
          /\ blockchain'[last'.node].nodes = blockchain[last'.node].nodes
          /\ \A m \in Nodes \ {last'.node} : blockchain'[m] = blockchain[m]]_vars

\* A resolve replaced the chain of a node with a transfer pending, while a
\* peer had a transfer pending too.
C20_Witness ==
    /\ last.op = "nodes_resolve"
    /\ last.ret = TRUE
    /\ blockchain[last.node].current_transactions # <<>>
    /\ blockchain[last.node].nodes # {}
    /\ \E m \in Nodes \ {last.node} : blockchain[m].current_transactions # <<>>

\* ------------------------------------------------- proof_of_work, called
\* The last proofs proof_of_work is called on.
MaxLastProof == 128

ProofOfWork(last_proof) ==
    /\ call' = [ fn |-> "proof_of_work", arg |-> last_proof,
                 ret |-> proof_of_work(last_proof), from |-> <<>> ]
    /\ UNCHANGED <<blockchain, receipts, last, threads>>

NextProof == \E last_proof \in 0..MaxLastProof : ProofOfWork(last_proof)

SpecProof == Init /\ [][NextProof]_vars

\* C16: proof_of_work(last_proof) returns a proof that is not negative and
\* verifies against last_proof, and no smaller non-negative proof verifies.
C16_SmallestValidProof ==
    call.fn = "proof_of_work" =>
        /\ call.ret \in Nat
        /\ valid_proof(call.arg, call.ret)
        /\ \A p \in 0..(call.ret - 1) : ~valid_proof(call.arg, p)

\* proof_of_work was called on a last proof of several digits and turned
\* down three candidates or more before the one it returned.
C16_Witness ==
    /\ call.fn = "proof_of_work"
    /\ call.arg >= 10
    /\ call.ret >= 3

\* The answers a scan may take: status 200, more blocks reported than the
\* node had, and a chain that is hash-linked and proof-verified throughout.
Candidates(old, responses) ==
    { i \in DOMAIN responses :
        /\ ~responses[i].raised
        /\ responses[i].status_code = 200
        /\ responses[i].length > Len(old)
        /\ responses[i].chain # <<>>
        /\ HashLinked(responses[i].chain)
        /\ ProofsVerified(responses[i].chain) }

\* C18: a resolve returns; it has set the chain to the chain of the first
\* answer, in scan order, whose reported length is the greatest among the
\* answers that report more blocks than the node had and carry a valid chain,
\* and returned True; when there is no such answer it has kept the chain and
\* returned False.
C18_FirstLongestValid ==
    last.op = "nodes_resolve" =>
        LET C == Candidates(last.pre.chain, last.responses)
            new == blockchain[last.node].chain
        IN  /\ last.code = 200
            /\ IF C = {}
               THEN last.ret = FALSE /\ new = last.pre.chain
               ELSE LET best == CHOOSE i \in C : \A j \in C :
                                   \/ last.responses[i].length
                                          > last.responses[j].length
                                   \/ /\ last.responses[i].length
                                             = last.responses[j].length
                                      /\ i <= j
                    IN  last.ret = TRUE /\ new = last.responses[best].chain

\* C19: on one node under submit and mine, the transfers accepted so far are,
\* each once and in the order accepted, what the blocks hold (rewards apart)
\* followed by what is pending: a step that accepts a transfer adds it at the
\* end, every other step keeps them, and no step changes a forged block.
RECURSIVE Forged(_)
Forged(chain) ==
    IF chain = <<>> THEN <<>>
    ELSE Forged(SubSeq(chain, 1, Len(chain) - 1))
             \o SelectSeq(chain[Len(chain)].transactions,
                          LAMBDA t : t.sender # "0")

Submitted(self) == Forged(self.chain) \o self.current_transactions

C19_TransactionsConserved ==
    [][\A n \in Nodes :
          /\ SubSeq(blockchain'[n].chain, 1, Len(blockchain[n].chain))
                 = blockchain[n].chain
          /\ IF last'.op = "transactions_new" /\ last'.code = 201 /\ last'.node = n
             THEN Submitted(blockchain'[n]) =
                      Append(Submitted(blockchain[n]),
                             receipts'[n][Len(receipts'[n])].trx)
             ELSE Submitted(blockchain'[n]) = Submitted(blockchain[n])]_vars

\* Three transfers were accepted: one is in the second block, one in the
\* third, one is pending.
C19_Witness ==
    /\ Len(blockchain[1].chain) = 3
    /\ Len(blockchain[1].chain[2].transactions) = 2
    /\ Len(blockchain[1].chain[3].transactions) = 2
    /\ Len(blockchain[1].current_transactions) = 1
    /\ Len(Submitted(blockchain[1])) = 3

\* ------------------------------------------------ the threaded server
\* app.run serves each request on a thread of its own, over the one
\* Blockchain object of the process, and no handler takes a lock.  Server is
\* the node whose threads are followed; a thread is switched out only between
\* the steps below, so every behaviour here is one of the finer interleaving.
Server == 1

\* GET /mine: last_block = blockchain.last_block, then proof_of_work.
MineRead(t) ==
    /\ threads[t].pc = "idle"
    /\ Len(blockchain[Server].chain) < MaxServerChain
    /\ LET lastBlock == last_block(blockchain[Server].chain)
       IN  threads' = [threads EXCEPT ![t] =
                          [Idle EXCEPT !.pc = "mine_reward",
                                       !.last_block = lastBlock,
                                       !.proof = proof_of_work(lastBlock.proof)]]
    /\ UNCHANGED <<blockchain, receipts, last, call>>

\* GET /mine: blockchain.new_transaction(sender="0", ...).
MineReward(t) ==
    /\ threads[t].pc = "mine_reward"
    /\ blockchain' = [blockchain EXCEPT ![Server] =
                         new_transaction(@, "0", node_identifier(Server), 1).self]
    /\ threads' = [threads EXCEPT ![t].pc = "mine_forge"]
    /\ UNCHANGED <<receipts, last, call>>

\* GET /mine: previous_hash = hash(last_block), then new_block.
MineForge(t) ==
    /\ threads[t].pc = "mine_forge"
    /\ \E now \in Timestamps :
          blockchain' = [blockchain EXCEPT ![Server] =
                            new_block(@, threads[t].proof,
                                      hash(threads[t].last_block), now).self]
    /\ threads' = [threads EXCEPT ![t] = Idle]
    /\ UNCHANGED <<receipts, last, call>>

\* POST /transactions/new with every required key.
Submit(t) ==
    /\ threads[t].pc = "idle"
    /\ \E values \in Transfers :
          blockchain' = [blockchain EXCEPT ![Server] =
                            new_transaction(@, values.sender, values.recipient,
                                            values.amount).self]
    /\ UNCHANGED <<receipts, last, call, threads>>

\* POST /nodes/register with the addresses of all the nodes.
Register(t) ==
    /\ threads[t].pc = "idle"
    /\ blockchain' = [blockchain EXCEPT ![Server] =
                         register_nodes(@, {Address(p) : p \in Nodes})]
    /\ UNCHANGED <<receipts, last, call, threads>>

\* resolve_conflicts up to the for loop.  `silent` are the neighbours that
\* take the connection of this request and never answer it.
ResolveStart(t) ==
    /\ threads[t].pc = "idle"
    /\ \E order \in Orders(blockchain[Server].nodes) :
       \E silent \in {{}} \cup {{p} : p \in blockchain[Server].nodes} :
          threads' = [threads EXCEPT ![t] =
                         [Idle EXCEPT !.pc = "resolve_fetch",
                                      !.neighbours = order,
                                      !.silent = silent,
                                      !.max_length = Len(blockchain[Server].chain)]]
    /\ UNCHANGED <<blockchain, receipts, last, call>>

\* One turn of the for loop: requests.get(...), called without a timeout,
\* returns when the neighbour answers or the connection fails, and the body
\* of the loop follows.  An exception ends the request.
ResolveFetch(t) ==
    /\ threads[t].pc = "resolve_fetch"
    /\ threads[t].neighbours # <<>>
    /\ Head(threads[t].neighbours) \notin threads[t].silent
    /\ \E outcome \in FetchOutcomes :
          LET response == Fetch(Head(threads[t].neighbours), outcome)
              scan == resolve_scan(<<response>>, 1, threads[t].max_length,
                                   threads[t].new_chain)
          IN  threads' = [threads EXCEPT ![t] =
                             IF scan.raised THEN Idle
                             ELSE [@ EXCEPT !.neighbours = Tail(@),
                                            !.max_length = scan.max_length,
                                            !.new_chain = scan.new_chain]]
    /\ UNCHANGED <<blockchain, receipts, last, call>>

\* After the loop: `if new_chain: self.chain = new_chain`, and return.
ResolveReplace(t) ==
    /\ threads[t].pc = "resolve_fetch"
    /\ threads[t].neighbours = <<>>
    /\ blockchain' = [blockchain EXCEPT ![Server].chain =
                         IF ~Falsy(threads[t].new_chain)
                         THEN threads[t].new_chain ELSE @]
    /\ threads' = [threads EXCEPT ![t] = Idle]
    /\ UNCHANGED <<receipts, last, call>>

\* The threads of Server, and the other nodes mining.
NextThreads ==
    \/ \E n \in Nodes \ {Server} : Mine(n)
    \/ \E t \in Threads :
          \/ Register(t)
          \/ MineRead(t)
          \/ MineReward(t)
          \/ MineForge(t)
          \/ PendingBelow(Server, MaxPending) /\ Submit(t)
          \/ ResolveStart(t)
          \/ ResolveFetch(t)
          \/ ResolveReplace(t)

SpecThreads == Init /\ [][NextThreads]_vars

\* C13: whatever requests the threads of one node serve at once, its chain is
\* one a sequential order of them leaves: hash-linked, the block at position
\* i of index i, and no two blocks forged on the same predecessor.
C13_Serialized ==
    LET chain == blockchain[Server].chain
    IN  /\ HashLinked(chain)
        /\ \A i \in DOMAIN chain : chain[i].index = i
        /\ \A i, j \in DOMAIN chain :
              chain[i].previous_hash = chain[j].previous_hash => i = j

\* C15: a resolve that waits for a neighbour's answer always has a next
\* step: it does not wait for ever on a neighbour that never answers.
C15_ResolveReturns ==
    \A t \in Threads :
        threads[t].pc = "resolve_fetch"
            => ENABLED (ResolveFetch(t) \/ ResolveReplace(t))

\* --------------------------------------------- the network left to settle
\* The handlers by what they do to the objects alone.
\* GET /mine
Mines(n) ==
    /\ Len(blockchain[n].chain) < MaxChain
    /\ \E now \in Timestamps :
          blockchain' = [blockchain EXCEPT ![n] = mine(@, n, now).self]
    /\ UNCHANGED <<receipts, last, call, threads>>

\* POST /transactions/new with every required key.
Submits(n) ==
    /\ \E values \in Transfers :
          blockchain' = [blockchain EXCEPT ![n] =
                            new_transaction(@, values.sender, values.recipient,
                                            values.amount).self]
    /\ UNCHANGED <<receipts, last, call, threads>>

\* POST /nodes/register with the addresses of all the nodes.
Registers(n) ==
    /\ blockchain' = [blockchain EXCEPT ![n] =
                         register_nodes(@, {Address(p) : p \in Nodes})]
    /\ UNCHANGED <<receipts, last, call, threads>>

\* GET /nodes/resolve when every neighbour answers.
Resolves(n) ==
    /\ \E order \in Orders(blockchain[n].nodes) :
          blockchain' = [blockchain EXCEPT ![n] =
              resolve_conflicts(@, [i \in DOMAIN order |->
                                       Fetch(order[i], "ok")]).self]
    /\ UNCHANGED <<receipts, last, call, threads>>

\* A node mines only while its chain is short of MaxChain blocks and takes a
\* transfer only while fewer than MaxPending are pending, so from some point
\* on no node mines or submits; and every node keeps being asked to resolve.
NextMesh ==
    \E n \in Nodes :
        \/ PendingBelow(n, MaxPending) /\ Submits(n)
        \/ Mines(n)
        \/ Registers(n)
        \/ Resolves(n)

SpecMesh ==
    /\ Init
    /\ [][NextMesh]_vars
    /\ \A n \in Nodes : WF_vars(Resolves(n))

\* Every node has every other node registered.
Meshed ==
    \A n \in Nodes : \A p \in Nodes \ {n} :
        Address(p).netloc \in blockchain[n].nodes

SameChain == \A n, m \in Nodes : blockchain[n].chain = blockchain[m].chain

SameLength ==
    \A n, m \in Nodes : Len(blockchain[n].chain) = Len(blockchain[m].chain)

\* C14 as claimed: once every node has every other registered, the nodes
\* eventually hold the same chain, and keep holding it.
C14_EventuallySameChain == <>[](Meshed => SameChain)

\* C14 as amended: once every node has every other registered, the nodes
\* eventually hold chains of the same length, and keep holding chains of
\* that length.
C14_EventuallySameLength == <>[](Meshed => SameLength)

\* Every node has every other registered, and all hold one chain of three
\* blocks, forged by more than one node.
C14_Witness ==
    /\ Meshed
    /\ SameChain
    /\ Len(blockchain[1].chain) = 3
    /\ \E i, j \in 2..3 :
          blockchain[1].chain[i].transactions
              # blockchain[1].chain[j].transactions
=============================================================================
